---- MODULE Spec2Model ----
(***************************************************************************)
(* Model of the typed call layer of rust-bitcoin-rpc (src/src/lib.rs):     *)
(* the connection handle BitcoinRpc, the rpc_request! / rpc_method!        *)
(* request-decode pattern, the five typed commands, and the Error /        *)
(* ErrorKind taxonomy with its Display form.                               *)
(*                                                                         *)
(* The jsonrpc transport client, strason's Json encoder and the bitcoin    *)
(* crate's hex codecs are collaborators: the transport's answer is an      *)
(* input drawn from a small set, and the codecs are modelled by their      *)
(* effect on a small universe of values.                                   *)
(***************************************************************************)
EXTENDS Naturals, Sequences, FiniteSets, TLC

\* ---------------------------------------------------------------- bounds
\* Number of typed command calls issued on the handle in one run.
MaxCalls == 2

\* ------------------------------------------------------- value universes
\* Option<T>: None, or Some(v) for a string-valued v.
None == [some |-> FALSE, v |-> ""]
Some(x) == [some |-> TRUE, v |-> x]

Urls == {"http://localhost:8332"}
Users == {"alice"}
Passes == {"secret"}
OptUsers == {None} \cup {Some(u) : u \in Users}
OptPasses == {None} \cup {Some(p) : p \in Passes}

\* conf_target: u16 (lib.rs:78). No arithmetic is done on it.
ConfTargets == {1, 6, 65535}
\* mining::EstimateMode variants (bitcoin_rpc_json).
EstimateModes == {"unset", "economical", "conservative"}
OptModes == {None} \cup {Some(m) : m \in EstimateModes}
\* allowhighfees: Option<bool>, the bool carried as its literal.
OptBools == {None, Some("true"), Some("false")}
\* Transactions handed to sendrawtransaction.
Transactions == {"txA", "txB"}

\* ------------------------------------------------------------ Json values
\* strason::Json, a self-describing value: a variant tag plus number/string
\* payload (every record has the same fields so that values are comparable).
JNull == [t |-> "null", n |-> 0, s |-> ""]
JNumber(n) == [t |-> "number", n |-> n, s |-> ""]
JString(s) == [t |-> "string", n |-> 0, s |-> s]
JBool(b) == [t |-> "bool", n |-> 0, s |-> b]
JObject(name) == [t |-> "object", n |-> 0, s |-> name]

\* Json::from_serialize(conf_target) (lib.rs:85): a u16 encodes as a number.
from_serialize_u16(n) == JNumber(n)
\* Json::from_serialize(estimate_mode) (lib.rs:87): a unit enum variant
\* encodes as a string naming the variant.
from_serialize_mode(m) == JString(m)
\* Json::from_serialize(rawtx) (lib.rs:119): a String encodes as a string.
from_serialize_string(s) == JString(s)
\* Json::from_serialize(allowhighfees) (lib.rs:121): a bool encodes as a bool.
from_serialize_bool(b) == JBool(b)

\* bitcoin_ser::serialize_hex(&tx) (lib.rs:116): the hex wire encoding.
serialize_hex(tx) == IF tx = "txA" THEN "0100aa" ELSE "0200bb"

\* Sha256dHash::from_hex (lib.rs:131) accepts exactly the well-formed hex
\* hashes; of the strings the transport can answer with, these are:
HexHashes == {"00000000000000000019d6689c085ae165831e934ff763ae46a2a6c172b3f1b6"}
from_hex_ok(s) == s \in HexHashes

\* ------------------------------------------------------ typed values
\* A decoded value of the declared result type ty.
NoVal == [ty |-> "", n |-> 0, s |-> ""]
Typed(ty, n, s) == [ty |-> ty, n |-> n, s |-> s]
from_hex(s) == Typed("Sha256dHash", 0, s)

\* ------------------------------------------------- transport collaborator
\* jsonrpc::Error: a variant and the message its Display prints.
NoCause == [variant |-> "", msg |-> ""]
JErr(variant, msg) == [variant |-> variant, msg |-> msg]
\* Failures send_request can report.
TransportErrors ==
    {JErr("Hyper", "connection refused"), JErr("Hyper", "timed out"),
     JErr("Json", "unexpected end of input")}
\* Failures into_result can report: the response carries an RPC error
\* object, or its result does not deserialize into the declared type.
RpcErrors == {JErr("Rpc", "code -26"), JErr("Rpc", "code -32601")}
DeserializeError == JErr("Json", "invalid type")
DecodeErrors == RpcErrors \cup {DeserializeError}

\* jsonrpc::Response: a result payload and an optional error object.
Resp(j) == [result |-> j, error |-> NoCause]
RespErr(e) == [result |-> JNull, error |-> e]
NoResp == Resp(JNull)
Responses ==
    {Resp(JNull), Resp(JNumber(8)), Resp(JString("zz")),
     Resp(JObject("EstimateSmartFee")), Resp(JObject("NetworkInfo"))}
    \cup {Resp(JString(h)) : h \in HexHashes}
    \cup {RespErr(e) : e \in RpcErrors}

\* What client.send_request(&request) can yield: Err(e) or Ok(response).
NoAnswer == [ok |-> FALSE, e |-> NoCause, resp |-> NoResp]
TransportOutcomes ==
    {[ok |-> FALSE, e |-> e, resp |-> NoResp] : e \in TransportErrors}
    \cup {[ok |-> TRUE, e |-> NoCause, resp |-> r] : r \in Responses}

\* serde deserialization of a Json payload into the declared type.
can_deserialize(ty, j) ==
    \/ ty = "u64" /\ j.t = "number"
    \/ ty = "unit" /\ j.t = "null"
    \/ ty = "String" /\ j.t = "string"
    \/ ty \in {"EstimateSmartFee", "NetworkInfo"} /\ j.t = "object" /\ j.s = ty

\* response.into_result::<ty>() (lib.rs:49, 94, 128).
into_result(ty, resp) ==
    IF resp.error # NoCause
    THEN [ok |-> FALSE, e |-> resp.error, v |-> NoVal]
    ELSE IF can_deserialize(ty, resp.result)
         THEN [ok |-> TRUE, e |-> NoCause,
               v |-> Typed(ty, resp.result.n, resp.result.s)]
         ELSE [ok |-> FALSE, e |-> DeserializeError, v |-> NoVal]

\* client.build_request(name, params) (lib.rs:31).
build_request(name, params) == [method |-> name, params |-> params]
NoRequest == [method |-> "", params |-> <<>>]

\* ------------------------------------------------------- error taxonomy
\* enum ErrorKind { JsonRpc(jsonrpc::Error), Daemon, Other } (lib.rs:170-177).
JsonRpc(e) == [tag |-> "JsonRpc", e |-> e]
Daemon == [tag |-> "Daemon", e |-> NoCause]
Other == [tag |-> "Other", e |-> NoCause]
NoKind == [tag |-> "", e |-> NoCause]

\* impl From<jsonrpc::Error> for ErrorKind (lib.rs:179-183).
\* (Faulty variant: the conversion picks the Daemon kind and drops e.)
from_as_Daemon(e) == Daemon
from(e) == JsonRpc(e)

\* Error::new(kind, desc) (lib.rs:145-153).
Error_new(kind, desc) == [kind |-> kind, desc |-> desc]
NoErr == [kind |-> NoKind, desc |-> ""]

\* RpcResult<T> = Result<T, Error> as the caller receives it: which of the
\* two it holds. A call that unwinds leaves neither.
Ok(v) == [hasVal |-> TRUE, val |-> v, hasErr |-> FALSE, err |-> NoErr]
Err(e) == [hasVal |-> FALSE, val |-> NoVal, hasErr |-> TRUE, err |-> e]
NoRet == [hasVal |-> FALSE, val |-> NoVal, hasErr |-> FALSE, err |-> NoErr]

\* The map_err closure of rpc_request! (lib.rs:33).
\* (Faulty variant: the closure wraps a cause other than the one it was given.)
rpc_request_map_err_lossy(e) == Error_new(from(DeserializeError), "RPC error")
rpc_request_map_err(e) == Error_new(from(e), "RPC error")

\* The map_err closure after into_result (lib.rs:50, 95, 129).
\* (Faulty variants: the description of the other closure; the kind Other.)
decode_map_err_swapped(e) == Error_new(from(e), "RPC error")
decode_map_err_other(e) == Error_new(Other, "Malformed response")
decode_map_err(e) == Error_new(from(e), "Malformed response")

\* impl Display for jsonrpc::Error, as used by "{}" at lib.rs:160.
cause_fmt(e) == e.variant \o ": " \o e.msg

\* impl Display for Error (lib.rs:156-166).
\* (Faulty variant: the JsonRpc arm leaves the cause out.)
fmt_no_cause(err) ==
    IF err.kind.tag = "JsonRpc" THEN "JSON-RPC error: " \o err.desc
    ELSE IF err.kind.tag = "Daemon" THEN "bitcoind daemon error: " \o err.desc
    ELSE err.desc
fmt(err) ==
    IF err.kind.tag = "JsonRpc"
    THEN "JSON-RPC error: " \o err.desc \o " (" \o cause_fmt(err.kind.e) \o ")"
    ELSE IF err.kind.tag = "Daemon" THEN "bitcoind daemon error: " \o err.desc
    ELSE err.desc

\* ------------------------------------------------------------------ state
VARIABLES
    debug_assertions, \* cfg!(debug_assertions) of the build (debug_assert!, lib.rs:69)
    handle,           \* the BitcoinRpc handle: not made, built, or new() panicked
    pc,               \* position of the current call: idle, built, sent, done, panicked
    call,             \* the command invoked and its arguments
    request,          \* the request build_request returned
    answer,           \* what send_request returned: Err(e) or Ok(response)
    response,         \* the raw response bound by rpc_request!
    ret,              \* what the call returned to its caller
    log,              \* the collaborator operations the current call performed
    ncalls,           \* calls issued so far
    returned,         \* every Error returned so far, with the step that failed
    fmtIn,            \* the Error handed to Display
    fmtOut            \* Display's output for fmtIn (fmtDone says whether made)

vars == <<debug_assertions, handle, pc, call, request, answer, response, ret, log,
          ncalls, returned, fmtIn, fmtOut>>

callVars == <<pc, call, request, answer, response, ret, log, ncalls, returned>>
fmtVars == <<fmtIn, fmtOut>>

NoHandle == [state |-> "none", url |-> "", user |-> None, pass |-> None]
NoCall == [cmd |-> "", ty |-> "", conf_target |-> 0, estimate_mode |-> None,
           tx |-> "", allowhighfees |-> None]
NoFmt == [done |-> FALSE, text |-> ""]

Init ==
    /\ debug_assertions \in BOOLEAN
    /\ handle = NoHandle
    /\ pc = "idle"
    /\ call = NoCall
    /\ request = NoRequest
    /\ answer = NoAnswer
    /\ response = NoResp
    /\ ret = NoRet
    /\ log = <<>>
    /\ ncalls = 0
    /\ returned = {}
    /\ fmtIn = NoErr
    /\ fmtOut = NoFmt

\* ------------------------------------------------------ BitcoinRpc::new
\* debug_assert!(pass.is_none() || user.is_some()) (lib.rs:69): evaluated
\* only when the build has debug assertions; it panics when false.
\* (Faulty variant: the assertion is absent.)
new_assert_missing(user, pass) == FALSE
new_assert_fails(user, pass) ==
    debug_assertions /\ ~(pass.some = FALSE \/ user.some = TRUE)

\* BitcoinRpc::new(url, user, pass) (lib.rs:66-72).
new(url, user, pass) ==
    /\ handle.state = "none"
    /\ handle' = [state |-> IF new_assert_fails(user, pass)
                            THEN "panicked" ELSE "built",
                  url |-> url, user |-> user, pass |-> pass]
    /\ UNCHANGED <<debug_assertions, callVars, fmtVars>>

\* ------------------------------------------------------------ commands
CanCall == handle.state = "built" /\ pc = "idle" /\ ncalls < MaxCalls

\* First half of rpc_request! (lib.rs:31): build the request for the call.
begin(c, name, params) ==
    /\ call' = c
    /\ request' = build_request(name, params)
    /\ log' = <<"build_request">>
    /\ pc' = "built"
    /\ ncalls' = ncalls + 1
    /\ ret' = NoRet
    /\ answer' = NoAnswer
    /\ response' = NoResp
    /\ UNCHANGED <<debug_assertions, handle, returned, fmtVars>>

\* The parameter list of a command with one required and one optional
\* parameter (lib.rs:84-88, 118-122): push the required one, then push the
\* optional one if it is Some.
\* (present: whether the optional one is Some; encoded: its encoded form.
\* Faulty variant: a null placeholder stands in for an absent one.)
opt_params_placeholder(required, present, encoded) ==
    <<required>> \o (IF present THEN <<encoded>> ELSE <<JNull>>)
opt_params(required, present, encoded) ==
    <<required>> \o (IF present THEN <<encoded>> ELSE <<>>)

\* estimatesmartfee(conf_target, estimate_mode) up to build_request
\* (lib.rs:76-92).
estimatesmartfee(conf_target, estimate_mode) ==
    /\ CanCall
    /\ begin([NoCall EXCEPT !.cmd = "estimatesmartfee", !.ty = "EstimateSmartFee",
                         !.conf_target = conf_target,
                         !.estimate_mode = estimate_mode],
          "estimatesmartfee",
          opt_params(from_serialize_u16(conf_target), estimate_mode.some,
                     from_serialize_mode(estimate_mode.v)))

\* sendrawtransaction(tx, allowhighfees) up to build_request (lib.rs:108-126).
sendrawtransaction(tx, allowhighfees) ==
    /\ CanCall
    /\ begin([NoCall EXCEPT !.cmd = "sendrawtransaction", !.ty = "String",
                         !.tx = tx, !.allowhighfees = allowhighfees],
          "sendrawtransaction",
          opt_params(from_serialize_string(serialize_hex(tx)),
                     allowhighfees.some, from_serialize_bool(allowhighfees.v)))

\* stringify!($rpc_method).to_string() (lib.rs:46): the identifier's text.
\* (Faulty variant: the macro variable's own name is sent.)
stringify_macro_var(ident) == "$rpc_method"
stringify(ident) == ident

\* vec![] (lib.rs:47).
rpc_method_params == <<>>

\* rpc_method!(pub fn $rpc_method(&self) -> RpcResult<$ty>) up to
\* build_request (lib.rs:38-47).
rpc_method(ident, ty) ==
    begin([NoCall EXCEPT !.cmd = ident, !.ty = ty],
          stringify(ident), rpc_method_params)

\* lib.rs:102-104.
getconnectioncount == CanCall /\ rpc_method("getconnectioncount", "u64")
ping == CanCall /\ rpc_method("ping", "unit")
getnetworkinfo == CanCall /\ rpc_method("getnetworkinfo", "NetworkInfo")

\* Second half of rpc_request! (lib.rs:32-33): send the request; a
\* transport error returns from the command at once through `?`.
\* (Faulty variant: a failed send is tried once more.)
send_request_retry(outcome) ==
    /\ pc = "built"
    /\ log' = Append(log, "send_request")
    /\ answer' = outcome
    /\ IF outcome.ok
       THEN /\ response' = outcome.resp
            /\ pc' = "sent"
            /\ ret' = ret
       ELSE IF Len(log) < 2
       THEN /\ response' = response
            /\ pc' = "built"
            /\ ret' = ret
       ELSE /\ response' = response
            /\ pc' = "done"
            /\ ret' = Err(rpc_request_map_err(outcome.e))
    /\ UNCHANGED <<debug_assertions, handle, call, request, ncalls, returned,
                   fmtVars>>
send_request(outcome) ==
    /\ pc = "built"
    /\ log' = Append(log, "send_request")
    /\ answer' = outcome
    /\ IF outcome.ok
       THEN /\ response' = outcome.resp
            /\ pc' = "sent"
            /\ ret' = ret
       ELSE /\ response' = response
            /\ pc' = "done"
            /\ ret' = Err(rpc_request_map_err(outcome.e))
    /\ UNCHANGED <<debug_assertions, handle, call, request, ncalls, returned,
                   fmtVars>>

\* What the command makes of a successfully decoded value v: the rpc_method!
\* commands and estimatesmartfee return Ok(v) (lib.rs:52, 97);
\* sendrawtransaction returns Ok(Sha256dHash::from_hex(&*v).unwrap())
\* (lib.rs:131-133), and the unwrap panics when v is no hex hash.
finish(cmd, v) ==
    IF cmd = "sendrawtransaction"
    THEN IF from_hex_ok(v.s)
         THEN [panic |-> FALSE, ret |-> Ok(from_hex(v.s))]
         ELSE [panic |-> TRUE, ret |-> NoRet]
    ELSE [panic |-> FALSE, ret |-> Ok(v)]

\* The decode step (lib.rs:49-52, 94-97, 128-133): into_result on the
\* response consumed, then the command's result.
decode ==
    /\ pc = "sent"
    /\ log' = Append(log, "into_result")
    /\ LET r == into_result(call.ty, response)
           f == finish(call.cmd, r.v)
       IN IF ~r.ok
          THEN /\ ret' = Err(decode_map_err(r.e))
               /\ pc' = "done"
          ELSE /\ ret' = f.ret
               /\ pc' = IF f.panic THEN "panicked" ELSE "done"
    /\ UNCHANGED <<debug_assertions, handle, call, request, answer, response,
                   ncalls, returned, fmtVars>>

\* The caller receives the result; the handle is free for the next call.
return ==
    /\ pc = "done"
    /\ pc' = "idle"
    /\ returned' = IF ret.hasErr
                   THEN returned \cup {[step |-> log[Len(log)], err |-> ret.err]}
                   ELSE returned
    /\ UNCHANGED <<debug_assertions, handle, call, request, answer, response,
                   ret, log, ncalls, fmtVars>>

Next ==
    \/ \E url \in Urls, user \in OptUsers, pass \in OptPasses : new(url, user, pass)
    \/ \E t \in ConfTargets, m \in OptModes : estimatesmartfee(t, m)
    \/ getconnectioncount
    \/ ping
    \/ getnetworkinfo
    \/ \E tx \in Transactions, a \in OptBools : sendrawtransaction(tx, a)
    \/ \E o \in TransportOutcomes : send_request(o)
    \/ decode
    \/ return

Spec == Init /\ [][Next]_vars

\* ------------------------------------------------- Display, on its own
\* The Error values Display can be handed: every kind, a range of
\* descriptions.
Descs == {"RPC error", "Malformed response", "", "warming up", "not found",
          "timeout", "bad request"}
Kinds == {JsonRpc(e) : e \in TransportErrors \cup DecodeErrors} \cup {Daemon, Other}
Errors == {Error_new(k, d) : k \in Kinds, d \in Descs}

InitFmt ==
    /\ debug_assertions \in BOOLEAN
    /\ handle = NoHandle
    /\ pc = "idle"
    /\ call = NoCall
    /\ request = NoRequest
    /\ answer = NoAnswer
    /\ response = NoResp
    /\ ret = NoRet
    /\ log = <<>>
    /\ ncalls = 0
    /\ returned = {}
    /\ fmtIn \in Errors
    /\ fmtOut = NoFmt

\* format!("{}", err): Display::fmt applied to fmtIn.
display ==
    /\ ~fmtOut.done
    /\ fmtOut' = [done |-> TRUE, text |-> fmt(fmtIn)]
    /\ UNCHANGED <<debug_assertions, handle, callVars, fmtIn>>

\* Another Error is handed to Display.
display_next(err) ==
    /\ fmtOut.done
    /\ fmtIn' = err
    /\ fmtOut' = NoFmt
    /\ UNCHANGED <<debug_assertions, handle, callVars>>

NextFmt ==
    \/ display
    \/ \E err \in Errors : display_next(err)

SpecFmt == InitFmt /\ [][NextFmt]_vars

\* ============================================================== claims
CallEnded == pc \in {"done", "panicked"}
Commands == {"estimatesmartfee", "getconnectioncount", "ping",
             "getnetworkinfo", "sendrawtransaction"}
ZeroArg == {"getconnectioncount", "ping", "getnetworkinfo"}
Count(seq, x) == Cardinality({i \in 1..Len(seq) : seq[i] = x})

\* C1: every call of every typed command, whatever the transport answers,
\* ends by returning exactly one of a typed result and a classified error:
\* never both and never neither.
C1_ExactlyOneOfResultOrError ==
    CallEnded => (ret.hasVal /\ ~ret.hasErr) \/ (ret.hasErr /\ ~ret.hasVal)

\* C2: when send_request returns a transport error e, the call returns an
\* error of kind JsonRpc wrapping exactly e with description "RPC error",
\* having attempted no decode and holding no result.
C2_TransportErrorWrapped ==
    (CallEnded /\ ~answer.ok) =>
        /\ pc = "done"
        /\ answer.e \in TransportErrors
        /\ ret.hasErr /\ ~ret.hasVal /\ ret.val = NoVal
        /\ ret.err.kind.tag = "JsonRpc"
        /\ ret.err.kind.e = answer.e
        /\ ret.err.desc = "RPC error"
        /\ log = <<"build_request", "send_request">>
C2_Witness ==
    /\ pc = "done" /\ ~answer.ok
    /\ answer.e = JErr("Hyper", "connection refused")
    /\ call.cmd = "ping"

\* The cause into_result reports for a response that does not decode into
\* type ty: the response's own error object, else the deserialization error.
DecodeFailureCause(ty, resp) ==
    IF resp.error # NoCause THEN resp.error ELSE DeserializeError
Undecodable(ty, resp) ==
    resp.error # NoCause \/ ~can_deserialize(ty, resp.result)

\* C3: when send_request succeeds and the response cannot be decoded into
\* the command's result type, the call returns an error carrying the decode
\* failure's cause and the description "Malformed response", for every
\* command alike.
C3_DecodeFailureMalformedResponse ==
    (CallEnded /\ answer.ok /\ Undecodable(call.ty, answer.resp)) =>
        /\ pc = "done"
        /\ call.cmd \in Commands
        /\ ret.hasErr /\ ~ret.hasVal
        /\ ret.err.kind.e = DecodeFailureCause(call.ty, answer.resp)
        /\ ret.err.desc = "Malformed response"
C3_Witness ==
    /\ pc = "done" /\ answer.ok
    /\ call.cmd = "getconnectioncount"
    /\ answer.resp = Resp(JString("zz"))
    /\ ret.hasErr

C5_OptionalParamsTrailing ==
    /\ call.cmd = "estimatesmartfee" =>
        /\ Len(request.params) = IF call.estimate_mode.some THEN 2 ELSE 1
        /\ request.params[1] = JNumber(call.conf_target)
        /\ call.estimate_mode.some =>
               request.params[2] = JString(call.estimate_mode.v)
        /\ (call.conf_target = 6 /\ call.estimate_mode = None) =>
               request.params = <<JNumber(6)>>
        /\ (call.conf_target = 6 /\ call.estimate_mode = Some("conservative")) =>
               request.params = <<JNumber(6), JString("conservative")>>
    /\ call.cmd = "sendrawtransaction" =>
        /\ Len(request.params) = IF call.allowhighfees.some THEN 2 ELSE 1
        /\ request.params[1] = JString(serialize_hex(call.tx))
        /\ call.allowhighfees.some =>
               request.params[2] = JBool(call.allowhighfees.v)
C5_Witness ==
    /\ call.cmd = "estimatesmartfee"
    /\ call.conf_target = 6 /\ call.estimate_mode = None
    /\ request.params = <<JNumber(6)>>
    /\ pc = "built"

\* Arguments new() must not be given: a password without a username.
PassWithoutUser == handle.pass.some /\ ~handle.user.some
Attempted == handle.state # "none"

\* C6 as claimed: new(url, user, pass) with pass present and user absent is
\* always rejected before any network interaction, so no handle built from
\* such arguments issues a request; the other combinations are accepted.
C6_AlwaysRejected ==
    /\ (Attempted /\ PassWithoutUser) =>
           handle.state = "panicked" /\ ncalls = 0 /\ log = <<>>
    /\ (Attempted /\ ~PassWithoutUser) => handle.state = "built"

\* C6 as amended: in a build with debug assertions, new(url, user, pass)
\* with pass present and user absent panics before any network interaction
\* and no handle exists to issue a request; in a build without them it is
\* accepted like every other combination.
C6_RejectedUnderDebugAssertions ==
    /\ (Attempted /\ PassWithoutUser /\ debug_assertions) =>
           handle.state = "panicked" /\ ncalls = 0 /\ log = <<>>
    /\ (Attempted /\ PassWithoutUser /\ ~debug_assertions) =>
           handle.state = "built"
    /\ (Attempted /\ ~PassWithoutUser) => handle.state = "built"
C6_Witness ==
    handle.state = "panicked" /\ PassWithoutUser /\ debug_assertions

\* C7: a typed command call makes one round-trip: one build_request, then
\* one send_request, and it ends only after send_request has answered; no
\* second send_request on any path.
C7_OneRoundTrip ==
    /\ Count(log, "build_request") <= 1
    /\ Count(log, "send_request") <= 1
    /\ pc = "built" => log = <<"build_request">>
    /\ pc \in {"sent", "done", "panicked"} =>
           /\ Len(log) >= 2
           /\ log[1] = "build_request"
           /\ log[2] = "send_request"
           /\ answer \in TransportOutcomes
C7_Witness ==
    /\ pc = "done" /\ ~answer.ok
    /\ log = <<"build_request", "send_request">>
    /\ call.cmd = "estimatesmartfee"

\* C8: each command's request carries the command's own name as method
\* name; getconnectioncount, ping and getnetworkinfo pass an empty
\* parameter list and on success return the decoded value unchanged.
C8_MethodNamesAndZeroArg ==
    call.cmd # "" =>
        /\ call.cmd \in Commands
        /\ request.method = call.cmd
        /\ call.cmd \in ZeroArg =>
            /\ request.params = <<>>
            /\ (CallEnded /\ ret.hasVal) =>
                   /\ ret.val = Typed(call.ty, response.result.n, response.result.s)
                   /\ response = answer.resp
                   /\ (call.cmd = "getconnectioncount" =>
                           response.result = JNumber(ret.val.n))
C8_Witness ==
    /\ call.cmd = "getconnectioncount"
    /\ pc = "done" /\ ret.hasVal /\ ret.val.n = 8
    /\ request = [method |-> "getconnectioncount", params |-> <<>>]

\* C9: the display form of an error is fixed by its kind: JsonRpc with
\* description d and cause c gives "JSON-RPC error: d (c)", Daemon gives
\* "bitcoind daemon error: d", Other gives d alone; so a transport failure
\* displays as "JSON-RPC error: RPC error (c)".
C9_DisplayByKind ==
    fmtOut.done =>
        /\ fmtIn.kind.tag = "JsonRpc" =>
               fmtOut.text = "JSON-RPC error: " \o fmtIn.desc \o " ("
                                 \o cause_fmt(fmtIn.kind.e) \o ")"
        /\ fmtIn.kind.tag = "Daemon" =>
               fmtOut.text = "bitcoind daemon error: " \o fmtIn.desc
        /\ fmtIn.kind.tag = "Other" => fmtOut.text = fmtIn.desc
        /\ fmtIn = Error_new(JsonRpc(JErr("Hyper", "connection refused")),
                             "RPC error") =>
               fmtOut.text = "JSON-RPC error: RPC error (Hyper: connection refused)"
C9_Witness ==
    /\ fmtOut.done
    /\ fmtIn \in {rpc_request_map_err(e) : e \in TransportErrors}
    /\ fmtOut.text = "JSON-RPC error: RPC error (Hyper: timed out)"

\* C10: after any sequence of calls no returned error has kind Daemon or
\* Other: each is of kind JsonRpc, built from a transport-library error,
\* with description "RPC error" or "Malformed response".
IsCommandError(err) ==
    /\ err.kind.tag = "JsonRpc"
    /\ err.kind.tag \notin {"Daemon", "Other"}
    /\ err.kind.e \in TransportErrors \cup DecodeErrors
    /\ err.desc \in {"RPC error", "Malformed response"}
C10_OnlyJsonRpcErrors ==
    /\ \A r \in returned : IsCommandError(r.err)
    /\ ret.hasErr => IsCommandError(ret.err)
C10_Witness ==
    /\ ncalls = MaxCalls /\ pc = "idle"
    /\ Cardinality(returned) >= 2

====
